---- MODULE Spec2Model ----
(***************************************************************************)
(* FinChat: the message store kept in messages.json, the WebSocket hub     *)
(* that mutates it (server/index.js, ws.on('message')) and the paginated   *)
(* read of it (GET /messages); the connection registry and the fanout of   *)
(* the hub; the channel list kept in channels.json.                        *)
(*                                                                         *)
(* Node runs every handler to completion: getMessages and saveAllMessages  *)
(* use readFileSync / writeFileSync and the handler never awaits, so one   *)
(* inbound frame is one atomic step of the server.                         *)
(*                                                                         *)
(* Timestamps are ISO-8601 strings of fixed width, compared as strings by  *)
(* the server; that order is the order of the instants, so an instant is   *)
(* modelled as a natural number of clock ticks.  JSON.stringify drops a    *)
(* field whose value is undefined, so "absent" and "undefined" are one     *)
(* value, None, in every stored and every broadcast record.                *)
(***************************************************************************)
EXTENDS Integers, Sequences, FiniteSets, TLC

VARIABLES
    messages,     \* contents of MESSAGES_FILE: the ordered sequence of records
    now,          \* the server's clock (new Date())
    nextId,       \* the next id the clients' generateUUID yields (fresh)
    lastEvent,    \* what the last inbound frame made the hub broadcast, or None
    response,     \* body of the last GET /messages answered since the store changed
    toggled,      \* history: the (id, emoji, user, connection) whose REACTION
                  \* frames arrived an odd number of times for a stored message
    faults,       \* history: reads and writes of the messages file that failed
    channels,     \* contents of CHANNELS_FILE
    clients,      \* the Map ws -> user, in insertion order
    readyState,   \* ws.readyState of each socket
    inbox,        \* history: the frames sent to each open socket since it
                  \* connected, in order
    running,      \* the server process is alive
    appChannels,  \* App: the channels state, the list the sidebar displays
    puts,         \* App.handleDrop: the updateChannel calls still to be made
    appMessages,  \* App: the messages state, the list displayed
    hasMoreNewer, \* App: the list is detached from the present
    fetching,     \* App: the getMessages call in flight, and its answer
    handled,      \* number of the frames sent to the client's socket that
                  \* its onmessage has handled
    socket,       \* ChatService: this.socket, its readyState and the server's
                  \* connection at its other end
    timers,       \* ChatService: pending setTimeout(() => this.connect())
    currentUser,  \* ChatService: this.currentUser
    wire,         \* frames socket.send took that the server has not handled
    saved,        \* history: the saveMessage calls, and what became of each
    reachable,    \* the server can be reached from the client
    outages       \* history: the times the server could not be reached

\* The state of the server: its files, its clock, its sockets
serverVars == <<messages, now, nextId, lastEvent, response, toggled, faults,
                channels, clients, readyState, inbox, running>>

\* The state of the client followed (App and ChatService in one browser tab)
sidebarVars == <<appChannels, puts>>
viewVars == <<appMessages, hasMoreNewer, fetching, handled>>
serviceVars == <<socket, timers, currentUser, wire, saved, reachable, outages>>
clientVars == <<sidebarVars, viewVars, serviceVars>>

vars == <<serverVars, clientVars>>

----------------------------------------------------------------------------
(* Bounds of the model *)

MaxMsgs == 2      \* messages created in the mutation specifications
MaxLog == 3       \* messages created in the pagination specification
MaxTime == 1      \* last instant of the clock
MaxLimit == 2     \* largest limit a query carries
MaxFaults == 1    \* failures of the disk in one behaviour
MaxEdited == 1    \* messages created in the edit and preview specifications
MaxHubMsgs == 1   \* messages created in the hub specification
MaxChannels == 2  \* channels in the channel specification
MaxOrder == 2     \* largest order a reorder request carries
MaxInbox == 2     \* frames sent to one socket in the hub specification
MaxFrames == 2    \* records stored in the frame specification
MaxShown == 3     \* channels in the drag-and-drop specification
MaxView == 4      \* messages created in the view specification
MaxOutages == 2               \* times the server cannot be reached
MaxSaves == 2                 \* messages the client saves
MaxPage == 2      \* the limit of the client's getMessages calls (const limit =
                  \* 50 in App), scaled to the stores of the view specification

(* Program constants *)

DefaultLimit == 100          \* parseInt(req.query.limit) || 100

None == "none"                \* a string-valued field that is absent
Undefined == -1               \* an instant, an id or a limit that is absent
NoEvent == [type |-> "none"]  \* broadcastMsg = null
NoResponse == [status |-> "none"]
Unmounted == [kind |-> "none"] \* App has not fetched yet
Idle == [kind |-> "idle"]      \* no getMessages call is in flight
Null == [null |-> TRUE]       \* clients.set(ws, null): nobody has joined
NoPayload == [undefined |-> TRUE]  \* message.payload of a frame without payload
CONNECTING == 0               \* WebSocket.readyState
OPEN == 1                     \* client.readyState === 1
CLOSING == 2
CLOSED == 3
Conns == {"c1", "c2"}
Users == {"u1", "u2"}
Emojis == {"e1"}
Urls == {"url1", "url2"}
ChannelIds == {"general", "dev"}
Sentinel == "Message deleted"
Contents == {"a", "b"}
Types == {"text", "image"}

Min(a, b) == IF a < b THEN a ELSE b
Max(a, b) == IF a > b THEN a ELSE b

----------------------------------------------------------------------------
(* Array helpers, with JavaScript's semantics *)

\* Array.prototype.slice(start, end), 0-based, 0 <= start; end is clamped
\* to the length
Slice(s, start, end) ==
    IF Min(end, Len(s)) <= start THEN <<>>
    ELSE SubSeq(s, start + 1, Min(end, Len(s)))

\* Array.prototype.slice(-n) for n > 0: the last n elements
SliceLast(s, n) == Slice(s, Max(0, Len(s) - n), Len(s))

\* Array.prototype.findIndex(m => m.id === id), 1-based; 0 stands for -1
FindIndex(msgs, id) ==
    IF \E i \in 1..Len(msgs) : msgs[i].id = id
    THEN CHOOSE i \in 1..Len(msgs) :
            /\ msgs[i].id = id
            /\ \A j \in 1..(i - 1) : msgs[j].id # id
    ELSE 0

\* Array.prototype.indexOf, 1-based; 0 stands for -1
IndexOf(s, x) ==
    IF \E i \in 1..Len(s) : s[i] = x
    THEN CHOOSE i \in 1..Len(s) : s[i] = x /\ \A j \in 1..(i - 1) : s[j] # x
    ELSE 0

\* Array.prototype.splice(idx, 1), idx 1-based
Splice1(s, idx) == SubSeq(s, 1, idx - 1) \o SubSeq(s, idx + 1, Len(s))

----------------------------------------------------------------------------
(* Persistence *)

\* getMessages: the parsed file, a record without channelId read as 'general';
\* any failure of the read or the parse yields the empty array.
getMessages(file, readOk) ==
    IF ~readOk THEN <<>>
    ELSE [i \in 1..Len(file) |->
            IF file[i].channelId = None
            THEN [file[i] EXCEPT !.channelId = "general"]
            ELSE file[i]]

\* saveAllMessages: writeFileSync of the whole array; a failure is caught and
\* logged.  A failed write leaves the old file ("unchanged") or, when the
\* file was already opened for writing, a truncated one that no longer
\* parses ("truncated": every later read yields the empty array).
WriteOutcomes == {"ok", "unchanged", "truncated"}

saveAllMessages(file, msgs, outcome) ==
    CASE outcome = "ok" -> msgs
      [] outcome = "unchanged" -> file
      [] outcome = "truncated" -> <<>>

----------------------------------------------------------------------------
(* The records the hub builds, one operator per branch of ws.on('message') *)

\* New message: the frame itself is stored, after the defaults are filled in.
\* The frame is what ChatService.saveMessage sends: id, channelId, userId,
\* timestamp (the client's clock), type, content, edited, deleted, pinned,
\* reactions, hiddenPreviews.
NewMessageRecord(frame, clock) ==
    [frame EXCEPT
        !.timestamp = IF frame.timestamp = Undefined THEN clock ELSE frame.timestamp,
        !.channelId = IF frame.channelId = None THEN "general" ELSE frame.channelId]

\* EDIT without "reactions: oldMsg.reactions": the reactions of the client's
\* copy replace the stored ones
EditRecordPayloadReactions(oldMsg, payload) ==
    [f \in DOMAIN oldMsg \cup DOMAIN payload |->
        CASE f \in {"pinned", "pinnedAt"} -> oldMsg[f]
          [] f = "channelId" ->
                IF oldMsg.channelId = None THEN "general" ELSE oldMsg.channelId
          [] f \notin {"pinned", "pinnedAt", "channelId"}
                /\ f \in DOMAIN payload -> payload[f]
          [] OTHER -> oldMsg[f]]

\* EDIT without "pinned: oldMsg.pinned, pinnedAt: oldMsg.pinnedAt": the pin
\* state of the client's copy replaces the stored one
EditRecordPayloadPin(oldMsg, payload) ==
    [f \in DOMAIN oldMsg \cup DOMAIN payload |->
        CASE f = "reactions" -> oldMsg[f]
          [] f = "channelId" ->
                IF oldMsg.channelId = None THEN "general" ELSE oldMsg.channelId
          [] f \notin {"reactions", "channelId"}
                /\ f \in DOMAIN payload -> payload[f]
          [] OTHER -> oldMsg[f]]

\* EDIT: { ...oldMsg, ...payload, reactions: oldMsg.reactions,
\*         pinned: oldMsg.pinned, pinnedAt: oldMsg.pinnedAt,
\*         channelId: oldMsg.channelId || 'general' }
\* Every field of the payload replaces the stored one, except the four the
\* handler takes from oldMsg again.
EditRecord(oldMsg, payload) ==
    [f \in DOMAIN oldMsg \cup DOMAIN payload |->
        CASE f \in {"reactions", "pinned", "pinnedAt"} -> oldMsg[f]
          [] f = "channelId" ->
                IF oldMsg.channelId = None THEN "general" ELSE oldMsg.channelId
          [] f \notin {"reactions", "pinned", "pinnedAt", "channelId"}
                /\ f \in DOMAIN payload -> payload[f]
          [] OTHER -> oldMsg[f]]

\* DELETE written as a toggle, the way PIN flips pinned
DeleteRecordToggles(msg) ==
    [msg EXCEPT
        !.deleted = ~msg.deleted,
        !.content = Sentinel,
        !.type = "text",
        !.pinned = FALSE,
        !.pinnedAt = Undefined]

\* DELETE: { ...msg, deleted: true, content: 'Message deleted', type: 'text',
\*           pinned: false, pinnedAt: undefined }
DeleteRecord(msg) ==
    [msg EXCEPT
        !.deleted = TRUE,
        !.content = Sentinel,
        !.type = "text",
        !.pinned = FALSE,
        !.pinnedAt = Undefined]

\* PIN that sets pinned instead of flipping it
PinRecordSets(msg, clock) ==
    [msg EXCEPT !.pinned = TRUE, !.pinnedAt = clock]

\* PIN: pinned flipped; pinnedAt set to the clock when pinned, removed otherwise
PinRecord(msg, clock) ==
    [msg EXCEPT
        !.pinned = ~msg.pinned,
        !.pinnedAt = IF ~msg.pinned THEN clock ELSE Undefined]

\* REACTION without "if (users.length === 0) delete msg.reactions[emoji]"
ToggleReactionKeepsEmptyKey(reactions, emoji, userId) ==
    LET withKey == IF emoji \in DOMAIN reactions THEN reactions
                   ELSE [e \in DOMAIN reactions \cup {emoji} |->
                            IF e = emoji THEN <<>> ELSE reactions[e]]
        users == withKey[emoji]
        userIdx == IndexOf(users, userId)
    IN  IF userIdx = 0
        THEN [withKey EXCEPT ![emoji] = Append(users, userId)]
        ELSE [withKey EXCEPT ![emoji] = Splice1(users, userIdx)]

\* REACTION: toggle userId in reactions[emoji]; an emptied key is deleted.
\* reactions is a function from the emoji keys present to arrays of user ids.
ToggleReaction(reactions, emoji, userId) ==
    LET withKey == IF emoji \in DOMAIN reactions THEN reactions
                   ELSE [e \in DOMAIN reactions \cup {emoji} |->
                            IF e = emoji THEN <<>> ELSE reactions[e]]
        users == withKey[emoji]
        userIdx == IndexOf(users, userId)
    IN  IF userIdx = 0
        THEN [withKey EXCEPT ![emoji] = Append(users, userId)]
        ELSE LET rest == Splice1(users, userIdx)
             IN  IF Len(rest) = 0
                 THEN [e \in DOMAIN withKey \ {emoji} |-> withKey[e]]
                 ELSE [withKey EXCEPT ![emoji] = rest]

ReactionRecord(msg, emoji, userId) ==
    [msg EXCEPT !.reactions = ToggleReaction(msg.reactions, emoji, userId)]

\* currentMessages[index] = ..., index 1-based, in each branch
Edited(currentMessages, index, payload) ==
    [currentMessages EXCEPT ![index] = EditRecord(currentMessages[index], payload)]

Deleted(currentMessages, index) ==
    [currentMessages EXCEPT ![index] = DeleteRecord(currentMessages[index])]

Pinned(currentMessages, index, clock) ==
    [currentMessages EXCEPT ![index] = PinRecord(currentMessages[index], clock)]

Reacted(currentMessages, index, emoji, userId) ==
    [currentMessages EXCEPT
        ![index] = ReactionRecord(currentMessages[index], emoji, userId)]

----------------------------------------------------------------------------
\* CHANNELS_FILE as first written
defaultChannels ==
    <<[id |-> "general", name |-> "general", description |-> "The lobby",
       createdAt |-> 0, order |-> 0]>>

(* Frames the clients send (services/chatService.ts) *)

\* The client whose socket is connection c is logged in as UserOf(c);
\* toggleReaction sends that user's id.
UserOf(c) == IF c = "c1" THEN "u1" ELSE "u2"

\* ChatService.saveMessage: a new message carries no action field.  The
\* timestamp is the sending client's clock, absent for a client that leaves
\* it to the server.
Draft(id, channelId, userId, timestamp, type, content) ==
    [id |-> id, channelId |-> channelId, userId |-> userId,
     timestamp |-> timestamp, type |-> type, content |-> content,
     edited |-> FALSE, deleted |-> FALSE, pinned |-> FALSE, pinnedAt |-> Undefined,
     reactions |-> <<>>, hiddenPreviews |-> <<>>]

\* ChatService.editMessage(originalMessage, newContent):
\* { ...originalMessage, content: newContent, edited: true }
EditPayload(originalMessage, newContent) ==
    [originalMessage EXCEPT !.content = newContent, !.edited = TRUE]

\* ChatService.removePreview(originalMessage, urlToRemove), when the url is
\* not yet in the copy's hiddenPreviews: the payload of the EDIT it sends,
\* { ...originalMessage, hiddenPreviews: [...currentHidden, urlToRemove] }
RemovePreviewPayload(originalMessage, urlToRemove) ==
    [originalMessage EXCEPT
        !.hiddenPreviews = Append(originalMessage.hiddenPreviews, urlToRemove)]

----------------------------------------------------------------------------
(* State *)

Init ==
    /\ messages = <<>>          \* fs.writeFileSync(MESSAGES_FILE, '[]')
    /\ now = 0
    /\ nextId = 1
    /\ lastEvent = NoEvent
    /\ response = NoResponse
    /\ toggled = {}
    /\ faults = 0
    /\ channels = defaultChannels
    /\ clients = <<>>          \* new Map()
    /\ readyState = [c \in Conns |-> CLOSED]
    /\ inbox = [c \in Conns |-> <<>>]
    /\ running = TRUE          \* server.listen
    /\ appChannels = <<>>      \* useState<Channel[]>([])
    /\ puts = <<>>
    /\ appMessages = <<>>      \* useState<Message[]>([])
    /\ hasMoreNewer = FALSE    \* useState(false)
    /\ fetching = Unmounted
    /\ handled = 0
    /\ socket = [readyState |-> CONNECTING, conn |-> None]  \* constructor: connect()
    /\ timers = 0
    /\ currentUser = Null      \* private currentUser: User | null = null
    /\ wire = <<>>
    /\ saved = {}
    /\ reachable = TRUE
    /\ outages = 0

Event(type, payload) == [type |-> type, payload |-> payload]

\* wss.clients.forEach(client => { if (client.readyState === 1) ... })
OpenClients == {c \in Conns : readyState[c] = OPEN}

\* A send that puts the frame ahead of the frames already sent
SendAhead(box, recipients, frame) ==
    [c \in Conns |-> IF c \in recipients THEN <<frame>> \o box[c] ELSE box[c]]

\* client.send(msg) for every client of a set
Send(box, recipients, frame) ==
    [c \in Conns |-> IF c \in recipients THEN Append(box[c], frame) ELSE box[c]]

\* The tail of ws.on('message'): saveAllMessages(currentMessages), then the
\* broadcast of broadcastMsg to every open client, whatever the write did.
Commit(updated, event, readOk, outcome) ==
    /\ messages' = saveAllMessages(messages, updated, outcome)
    /\ faults' = faults + (IF readOk THEN 0 ELSE 1) + (IF outcome = "ok" THEN 0 ELSE 1)
    /\ lastEvent' = event
    /\ inbox' = Send(inbox, OpenClients, event)
    /\ response' = NoResponse

\* A handler that answers an unknown target with an error event
DroppedWithError(readOk) ==
    /\ messages' = messages
    /\ faults' = faults + (IF readOk THEN 0 ELSE 1)
    /\ lastEvent' = Event("ERROR", "NotFound")
    /\ inbox' = Send(inbox, OpenClients, Event("ERROR", "NotFound"))
    /\ response' = NoResponse

\* index === -1: nothing is saved and broadcastMsg stays null
Dropped(readOk) ==
    /\ messages' = messages
    /\ faults' = faults + (IF readOk THEN 0 ELSE 1)
    /\ lastEvent' = NoEvent
    /\ inbox' = inbox
    /\ response' = NoResponse

\* new Date() read later
Tick ==
    /\ now < MaxTime
    /\ now' = now + 1
    /\ UNCHANGED <<running, messages, nextId, lastEvent, response, toggled, faults,
                   channels, clients, readyState, inbox>>
    /\ UNCHANGED clientVars

\* ws.on('message'), else branch: a frame with no known action is a new
\* message.  The handler does not look at the frame's id or at any other of
\* its fields; nextId moves on when the frame carries the id generateUUID
\* yielded for it.
WsNewMessage(c, frame, readOk, outcome) ==
    LET currentMessages == getMessages(messages, readOk)
        message == NewMessageRecord(frame, now)
    IN  /\ nextId' = IF frame.id = nextId THEN nextId + 1 ELSE nextId
        /\ Commit(Append(currentMessages, message),
                  Event("NEW_MESSAGE", message), readOk, outcome)
        /\ UNCHANGED <<running, now, toggled, channels, clients, readyState>>

\* ws.on('message'), action EDIT
WsEdit(c, payload, readOk, outcome) ==
    LET currentMessages == getMessages(messages, readOk)
        index == FindIndex(currentMessages, payload.id)
        updated == Edited(currentMessages, index, payload)
    IN  /\ IF index # 0
           THEN Commit(updated,
                       Event("UPDATE_MESSAGE", updated[index]), readOk, outcome)
           ELSE Dropped(readOk)
        /\ UNCHANGED <<running, now, nextId, toggled, channels, clients, readyState>>

\* ws.on('message'), action DELETE
WsDelete(c, id, readOk, outcome) ==
    LET currentMessages == getMessages(messages, readOk)
        index == FindIndex(currentMessages, id)
        updated == Deleted(currentMessages, index)
    IN  /\ IF index # 0
           THEN Commit(updated,
                       Event("UPDATE_MESSAGE", updated[index]), readOk, outcome)
           ELSE Dropped(readOk)
        /\ UNCHANGED <<running, now, nextId, toggled, channels, clients, readyState>>

\* ws.on('message'), action PIN
WsPin(c, messageId, readOk, outcome) ==
    LET currentMessages == getMessages(messages, readOk)
        index == FindIndex(currentMessages, messageId)
        updated == Pinned(currentMessages, index, now)
    IN  /\ IF index # 0
           THEN Commit(updated,
                       Event("UPDATE_MESSAGE", updated[index]), readOk, outcome)
           ELSE Dropped(readOk)
        /\ UNCHANGED <<running, now, nextId, toggled, channels, clients, readyState>>

\* History of the REACTION frames that arrived for a message in the store
Arrived(set, messageId, emoji, userId, c) ==
    IF \E t \in set : t.id = messageId /\ t.emoji = emoji /\ t.user = userId
    THEN {t \in set : ~(t.id = messageId /\ t.emoji = emoji /\ t.user = userId)}
    ELSE set \cup {[id |-> messageId, emoji |-> emoji, user |-> userId, conn |-> c]}

\* ws.on('message'), action REACTION
WsReaction(c, messageId, emoji, userId, readOk, outcome) ==
    LET currentMessages == getMessages(messages, readOk)
        index == FindIndex(currentMessages, messageId)
        updated == Reacted(currentMessages, index, emoji, userId)
    IN  /\ IF index # 0
           THEN Commit(updated,
                       Event("UPDATE_MESSAGE", updated[index]), readOk, outcome)
           ELSE Dropped(readOk)
        /\ toggled' = IF FindIndex(messages, messageId) # 0
                      THEN Arrived(toggled, messageId, emoji, userId, c)
                      ELSE toggled
        /\ UNCHANGED <<running, now, nextId, channels, clients, readyState>>

----------------------------------------------------------------------------
(* The connection registry and presence *)

\* clients.set(ws, user): a key already in the Map keeps its position
MapSet(map, ws, user) ==
    IF \E i \in 1..Len(map) : map[i].ws = ws
    THEN [i \in 1..Len(map) |->
            IF map[i].ws = ws THEN [ws |-> ws, user |-> user] ELSE map[i]]
    ELSE Append(map, [ws |-> ws, user |-> user])

\* clients.delete(ws)
MapDelete(map, ws) == SelectSeq(map, LAMBDA e : e.ws # ws)

\* Array.from(clients.values()).filter(u => u !== null)
BoundUsers(map) ==
    LET bound == SelectSeq(map, LAMBDA e : e.user # Null)
    IN  [i \in 1..Len(bound) |-> bound[i].user]

\* No de-duplication: one entry per bound connection
AllUsers(users) == users

\* uniqueUsersMap.set(u.id, u) for each user, then Array.from(values()): one
\* entry per id, at the place of the id's first user, holding its last user
UniqueUsers(users) ==
    LET firsts == {i \in 1..Len(users) :
                        \A j \in 1..(i - 1) : users[j].id # users[i].id}
        place(k) == CHOOSE i \in firsts :
                        Cardinality({j \in firsts : j < i}) = k - 1
        last(i) == CHOOSE j \in 1..Len(users) :
                        /\ users[j].id = users[i].id
                        /\ \A m \in (j + 1)..Len(users) : users[m].id # users[i].id
    IN  [k \in 1..Cardinality(firsts) |-> users[last(place(k))]]

\* broadcastUserList, for the Map and the sockets as they are when it runs
UserList(map) == Event("USER_LIST", UniqueUsers(BoundUsers(map)))

\* filter(u => u !== null) lets undefined through, and u.id of undefined is a
\* TypeError: broadcastUserList throws, before it sends anything, while some
\* connection is bound to undefined
UserListThrows(map) == \E i \in 1..Len(map) : map[i].user = NoPayload

\* wss.on('connection'): a new socket, open, bound to nobody
Connection(c) ==
    /\ running
    /\ readyState[c] = CLOSED
    /\ readyState' = [readyState EXCEPT ![c] = OPEN]
    /\ clients' = MapSet(clients, c, Null)
    /\ inbox' = [inbox EXCEPT ![c] = <<>>]
    /\ UNCHANGED <<running, messages, now, nextId, lastEvent, response, toggled, faults,
                   channels>>

\* ws.on('message'), action JOIN or UPDATE_USER (the messages read first is
\* not used).  A throw of broadcastUserList is caught by the handler's catch.
WsJoin(c, payload) ==
    /\ clients' = MapSet(clients, c, payload)
    /\ IF UserListThrows(clients')
       THEN /\ lastEvent' = NoEvent
            /\ inbox' = inbox
       ELSE /\ lastEvent' = UserList(clients')
            /\ inbox' = Send(inbox, OpenClients, UserList(clients'))
    /\ UNCHANGED <<running, messages, now, nextId, response, toggled, faults,
                   channels, readyState>>

\* ws.on('message'), a frame JSON.parse rejects: the throw is caught, nothing
\* else has run
WsGarbage(c) ==
    /\ lastEvent' = NoEvent
    /\ UNCHANGED <<running, messages, now, nextId, response, toggled, faults,
                   channels, clients, readyState, inbox>>

\* TYPING echoed to the sender too
WsTypingEcho(c, payload) ==
    /\ lastEvent' = Event("TYPING", payload)
    /\ inbox' = Send(inbox, OpenClients, Event("TYPING", payload))
    /\ UNCHANGED <<running, messages, now, nextId, response, toggled, faults,
                   channels, clients, readyState>>

\* ws.on('message'), action TYPING: to every open client but ws, nothing saved
WsTyping(c, payload) ==
    /\ lastEvent' = Event("TYPING", payload)
    /\ inbox' = Send(inbox, OpenClients \ {c}, Event("TYPING", payload))
    /\ UNCHANGED <<running, messages, now, nextId, response, toggled, faults,
                   channels, clients, readyState>>

\* The closing handshake of a socket has begun: readyState is no longer 1,
\* the 'close' event has not been emitted yet
Closing(c) ==
    /\ readyState[c] = OPEN
    /\ readyState' = [readyState EXCEPT ![c] = CLOSING]
    /\ inbox' = [inbox EXCEPT ![c] = <<>>]
    /\ UNCHANGED <<running, messages, now, nextId, lastEvent, response, toggled, faults,
                   channels, clients>>

\* A close handler that lists the users before it forgets the socket
WsCloseListsFirst(c) ==
    /\ readyState[c] # CLOSED
    /\ readyState' = [readyState EXCEPT ![c] = CLOSED]
    /\ clients' = MapDelete(clients, c)
    /\ lastEvent' = UserList(clients)
    /\ inbox' = [Send(inbox, OpenClients \ {c}, UserList(clients))
                    EXCEPT ![c] = <<>>]
    /\ UNCHANGED <<running, messages, now, nextId, response, toggled, faults, channels>>

\* ws.on('close'): the socket is closed and out of wss.clients.  The listener
\* has no try: a throw of broadcastUserList is an uncaught exception, which
\* ends the process, and with it every socket and the Map.
WsClose(c) ==
    /\ readyState[c] # CLOSED
    /\ IF UserListThrows(MapDelete(clients, c))
       THEN /\ running' = FALSE
            /\ readyState' = [d \in Conns |-> CLOSED]
            /\ clients' = <<>>
            /\ lastEvent' = NoEvent
            /\ inbox' = [d \in Conns |-> <<>>]
       ELSE /\ running' = running
            /\ readyState' = [readyState EXCEPT ![c] = CLOSED]
            /\ clients' = MapDelete(clients, c)
            /\ lastEvent' = UserList(clients')
            /\ inbox' = [Send(inbox, OpenClients \ {c}, UserList(clients'))
                            EXCEPT ![c] = <<>>]
    /\ UNCHANGED <<messages, now, nextId, response, toggled, faults, channels>>

----------------------------------------------------------------------------
(* GET /messages *)

\* The query string: channelId, limit, and at most one of before, after
\* (timestamps) and around (a message id); a parameter left out is None
\* (channelId) or Undefined (the others).
\* No q (search text) is sent.
Query(channelId, limit, before, after, around) ==
    [channelId |-> channelId, limit |-> limit,
     before |-> before, after |-> after, around |-> around]

GetMessages(file, q, readOk) ==
    LET limit == IF q.limit = Undefined THEN DefaultLimit ELSE q.limit
        all == getMessages(file, readOk)
        allMessages ==
            IF q.channelId # None /\ q.channelId # "all"
            THEN SelectSeq(all, LAMBDA m : m.channelId = q.channelId)
            ELSE all
    IN  IF q.around # Undefined
        THEN LET index == FindIndex(allMessages, q.around) - 1   \* 0-based
             IN  IF index = -1
                 THEN SliceLast(allMessages, limit)
                 ELSE LET half == limit \div 2
                          start == Max(0, index - half)
                          end == Min(Len(allMessages), index + half + 1)
                      IN  Slice(allMessages, start, end)
        ELSE IF q.before # Undefined
        THEN SliceLast(SelectSeq(allMessages, LAMBDA m : m.timestamp < q.before),
                       limit)
        ELSE IF q.after # Undefined
        THEN Slice(SelectSeq(allMessages, LAMBDA m : m.timestamp > q.after),
                   0, limit)
        ELSE SliceLast(allMessages, limit)

\* app.get('/messages'): read-only; the answer is what the client receives
HttpGetMessages(q, readOk) ==
    /\ response' = [status |-> "ok", query |-> q,
                    body |-> GetMessages(messages, q, readOk)]
    /\ UNCHANGED <<running, messages, now, nextId, lastEvent, toggled, faults,
                   channels, clients, readyState, inbox>>

----------------------------------------------------------------------------
(* The channel list: GET, POST and PUT /channels.  Reads and writes of the
   channels file succeed. *)

ChannelNames == {"general", "General", "dev"}

\* String.prototype.toLowerCase on the names of the model
toLowerCase(name) ==
    CASE name = "General" -> "general"
      [] OTHER -> name

\* Date.now().toString(36); for an instant below 10 that is its decimal digit
ToString36(instant) == ToString(instant)

\* channels.sort((a, b) => (a.order || 0) - (b.order || 0)): a stable sort
SortByOrder(list) ==
    LET rank(i) == Cardinality({j \in 1..Len(list) :
                        \/ list[j].order < list[i].order
                        \/ list[j].order = list[i].order /\ j < i}) + 1
    IN  [k \in 1..Len(list) |-> list[CHOOSE i \in 1..Len(list) : rank(i) = k]]

getChannels(file) == SortByOrder(file)

saveChannels(list) == list

\* app.post('/channels')
HttpPostChannel(name, description) ==
    LET list == getChannels(channels)
        newChannel == [id |-> ToString36(now), name |-> name,
                       description |-> IF description = None THEN "" ELSE description,
                       createdAt |-> now, order |-> Len(list)]
    IN  /\ IF name = None
           THEN /\ response' = [status |-> "400", body |-> "Name required"]
                /\ channels' = channels
           ELSE IF \E i \in 1..Len(list) :
                        toLowerCase(list[i].name) = toLowerCase(name)
           THEN /\ response' = [status |-> "400", body |-> "Channel exists"]
                /\ channels' = channels
           ELSE /\ response' = [status |-> "200", body |-> newChannel]
                /\ channels' = saveChannels(Append(list, newChannel))
        /\ UNCHANGED <<running, messages, now, nextId, lastEvent, toggled, faults,
                       clients, readyState, inbox>>

\* app.put('/channels/:id'): rename, reorder, or both
HttpPutChannel(id, name, order) ==
    LET list == getChannels(channels)
        found == {i \in 1..Len(list) : list[i].id = id}
        index == CHOOSE i \in found : \A j \in found : i <= j
        renamed == IF name # None THEN [list EXCEPT ![index].name = name] ELSE list
        updated == IF order # Undefined
                   THEN [renamed EXCEPT ![index].order = order] ELSE renamed
    IN  /\ IF found = {}
           THEN /\ response' = [status |-> "404", body |-> "Channel not found"]
                /\ channels' = channels
           ELSE /\ response' = [status |-> "200", body |-> updated[index]]
                /\ channels' = saveChannels(updated)
        /\ UNCHANGED <<running, messages, now, nextId, lastEvent, toggled, faults,
                       clients, readyState, inbox>>

----------------------------------------------------------------------------
(* The client: the channel list of the sidebar (App) *)

\* loadChannels, on mount: GET /channels answers getChannels()
LoadChannels ==
    /\ appChannels' = getChannels(channels)
    /\ UNCHANGED <<serverVars, puts, viewVars, serviceVars>>

\* createNewChannel: POST /channels and, when it succeeds,
\* setChannels(prev => [...prev, ch])
CreateNewChannel(name) ==
    /\ HttpPostChannel(name, None)
    /\ appChannels' = IF response'.status = "200"
                      THEN Append(appChannels, response'.body)
                      ELSE appChannels
    /\ UNCHANGED <<puts, viewVars, serviceVars>>

\* newChannels.splice(dragIndex, 1) and newChannels.splice(dropIndex, 0,
\* draggedItem), indices 0-based
Moved(list, dragIndex, dropIndex) ==
    LET rest == Splice1(list, dragIndex + 1)
    IN  SubSeq(rest, 1, dropIndex) \o <<list[dragIndex + 1]>>
            \o SubSeq(rest, dropIndex + 1, Len(rest))

\* The loop of handleDrop: for each place i whose channel has c.order !== i,
\* in turn, updateChannel({ ...c, order: i }).  newChannels is a local
\* array nothing writes to, so the calls are fixed when the loop starts.
SyncCalls(newChannels) ==
    LET placed == [k \in 1..Len(newChannels) |-> [c |-> newChannels[k], i |-> k - 1]]
        stale == SelectSeq(placed, LAMBDA e : e.c.order # e.i)
    IN  [k \in 1..Len(stale) |-> [stale[k].c EXCEPT !.order = stale[k].i]]

\* handleDrop: the optimistic setChannels(newChannels), the display order
\* with each channel's order field as the client had it, and the calls to come
HandleDrop(dragIndex, dropIndex) ==
    LET newChannels == Moved(appChannels, dragIndex, dropIndex)
    IN  /\ dragIndex # dropIndex
        /\ appChannels' = newChannels
        /\ puts' = SyncCalls(newChannels)
        /\ UNCHANGED <<serverVars, viewVars, serviceVars>>

\* The updateChannel call the loop awaits: PUT /channels/:id with
\* { name: channel.name, order: channel.order }; its answer is not used
ServePut ==
    /\ puts # <<>>
    /\ HttpPutChannel(puts[1].id, puts[1].name, puts[1].order)
    /\ puts' = Tail(puts)
    /\ UNCHANGED <<appChannels, viewVars, serviceVars>>

----------------------------------------------------------------------------
(* The client: the message list of the active channel (App) *)

\* useState<string>('general'); the channel is not switched
activeChannelId == "general"

\* The socket of the client followed
ViewConn == "c1"

\* chatService.getMessages(...) called and not yet answered
Request(kind, query) ==
    [kind |-> kind, query |-> query, answered |-> FALSE, body |-> <<>>]

\* fetchInitialHistory, up to its await: the list is cleared and the latest
\* page is asked for
FetchInitialHistory(limit) ==
    /\ appMessages' = <<>>
    /\ hasMoreNewer' = FALSE
    /\ fetching' = Request("initial", Query(activeChannelId, limit, Undefined,
                                            Undefined, Undefined))
    /\ UNCHANGED <<serverVars, sidebarVars, serviceVars, handled>>

\* handleJumpToMessage for a message that is not in view, up to its await
HandleJumpToMessage(targetId, limit) ==
    /\ \A i \in 1..Len(appMessages) : appMessages[i].id # targetId
    /\ fetching' = Request("jump", Query(activeChannelId, limit, Undefined,
                                         Undefined, targetId))
    /\ UNCHANGED <<serverVars, sidebarVars, serviceVars, appMessages, hasMoreNewer, handled>>

\* loadMoreNewer, up to its await (isLoading is true while a call is in
\* flight)
LoadMoreNewer(limit) ==
    /\ fetching = Idle /\ hasMoreNewer /\ Len(appMessages) # 0
    /\ fetching' = Request("newer",
                           Query(activeChannelId, limit, Undefined,
                                 appMessages[Len(appMessages)].timestamp, Undefined))
    /\ UNCHANGED <<serverVars, sidebarVars, serviceVars, appMessages, hasMoreNewer, handled>>

\* The server answers the call in flight: app.get('/messages')
ServeFetch ==
    /\ fetching \notin {Unmounted, Idle} /\ ~fetching.answered
    /\ HttpGetMessages(fetching.query, TRUE)
    /\ fetching' = [fetching EXCEPT !.answered = TRUE, !.body = response'.body]
    /\ UNCHANGED <<sidebarVars, serviceVars, appMessages, hasMoreNewer, handled>>

\* The continuation after the await, for each of the three callers
ApplyFetch ==
    /\ fetching \notin {Unmounted, Idle} /\ fetching.answered
    /\ fetching' = Idle
    /\ CASE fetching.kind = "initial" ->        \* setMessages(history)
                /\ appMessages' = fetching.body
                /\ hasMoreNewer' = hasMoreNewer
          [] fetching.kind = "jump" ->           \* setMessages(contextMessages)
                /\ appMessages' = fetching.body
                /\ hasMoreNewer' = TRUE
          [] fetching.kind = "newer" ->          \* setMessages(prev => [...prev, ...newer])
                /\ appMessages' = appMessages \o fetching.body
                /\ hasMoreNewer' = IF Len(fetching.body) > 0
                                        /\ Len(fetching.body) >= fetching.query.limit
                                   THEN hasMoreNewer ELSE FALSE
    /\ UNCHANGED <<serverVars, sidebarVars, serviceVars, handled>>

\* socket.onmessage and the callbacks App subscribed: a NEW_MESSAGE of the
\* active channel is appended, an UPDATE_MESSAGE replaces the record with
\* its id, whatever hasMoreNewer says
OnMessage ==
    /\ handled < Len(inbox[ViewConn])
    /\ handled' = handled + 1
    /\ LET data == inbox[ViewConn][handled + 1]
       IN  appMessages' =
            CASE data.type = "NEW_MESSAGE" ->
                    IF data.payload.channelId = activeChannelId
                    THEN Append(appMessages, data.payload)
                    ELSE appMessages
              [] data.type = "UPDATE_MESSAGE" ->
                    [i \in 1..Len(appMessages) |->
                        IF appMessages[i].id = data.payload.id
                        THEN data.payload ELSE appMessages[i]]
              [] OTHER -> appMessages
    /\ UNCHANGED <<serverVars, sidebarVars, serviceVars, hasMoreNewer, fetching>>

----------------------------------------------------------------------------
(* The client: ChatService, its socket and its reconnection *)

\* sendToSocket(data): socket.send when the socket is open, nothing otherwise
SendToSocket(data) ==
    IF socket.readyState = OPEN THEN Append(wire, data) ELSE wire

JoinFrame(user) == [action |-> "JOIN", payload |-> user]

\* connect(), called by the timer of onclose: a new WebSocket
Connect ==
    /\ timers > 0
    /\ timers' = timers - 1
    /\ socket' = [readyState |-> CONNECTING, conn |-> None]
    /\ UNCHANGED <<serverVars, sidebarVars, viewVars, currentUser, wire, saved,
                   reachable, outages>>

\* An onopen that does not send JOIN
SocketOpenSilent(c) ==
    /\ reachable
    /\ socket.readyState = CONNECTING
    /\ Connection(c)
    /\ socket' = [readyState |-> OPEN, conn |-> c]
    /\ wire' = <<>>
    /\ UNCHANGED <<sidebarVars, viewVars, timers, currentUser, saved, reachable, outages>>

\* The handshake completes: wss.on('connection') on the server and
\* socket.onopen on the client, which sends JOIN when a user is known
SocketOpen(c) ==
    /\ reachable
    /\ socket.readyState = CONNECTING
    /\ Connection(c)
    /\ socket' = [readyState |-> OPEN, conn |-> c]
    /\ wire' = IF currentUser # Null THEN <<JoinFrame(currentUser)>> ELSE <<>>
    /\ UNCHANGED <<sidebarVars, viewVars, timers, currentUser, saved, reachable, outages>>

\* The handshake fails: socket.onerror, then socket.onclose
SocketFail ==
    /\ ~reachable
    /\ socket.readyState = CONNECTING
    /\ socket' = [readyState |-> CLOSED, conn |-> None]
    /\ timers' = timers + 1
    /\ UNCHANGED <<serverVars, sidebarVars, viewVars, currentUser, wire, saved,
                   reachable, outages>>

\* The connection is lost: socket.onclose of an open socket; what it had
\* taken and the server has not handled is gone
SocketClose ==
    /\ ~reachable
    /\ socket.readyState = OPEN
    /\ socket' = [socket EXCEPT !.readyState = CLOSED]
    /\ timers' = timers + 1
    /\ wire' = <<>>
    /\ UNCHANGED <<serverVars, sidebarVars, viewVars, currentUser, saved, reachable, outages>>

\* sendJoin(user), called by App when the user logs in
SendJoin(user) ==
    /\ currentUser' = user
    /\ wire' = SendToSocket(JoinFrame(user))
    /\ UNCHANGED <<serverVars, sidebarVars, viewVars, socket, timers, saved,
                   reachable, outages>>

\* saveMessage: the new message with a fresh id handed to sendToSocket; the
\* promise resolves whether or not the socket took it
SaveMessage(channelId, type, content) ==
    /\ wire' = SendToSocket(Draft(nextId, channelId, currentUser.id, now, type, content))
    /\ saved' = saved \cup {[id |-> nextId, open |-> socket.readyState = OPEN,
                               result |-> "resolved"]}
    /\ nextId' = nextId + 1
    /\ UNCHANGED <<messages, now, lastEvent, response, toggled, faults, channels,
                   clients, readyState, inbox, running>>
    /\ UNCHANGED <<sidebarVars, viewVars, socket, timers, currentUser, reachable, outages>>

\* ws.on('message') for the frame the client's socket sent first
ServeWire ==
    /\ wire # <<>>
    /\ readyState[socket.conn] = OPEN
    /\ IF "action" \in DOMAIN wire[1]
       THEN WsJoin(socket.conn, wire[1].payload)
       ELSE WsNewMessage(socket.conn, wire[1], TRUE, "ok")
    /\ wire' = Tail(wire)
    /\ UNCHANGED <<sidebarVars, viewVars, socket, timers, currentUser, saved,
                   reachable, outages>>

\* ws.on('close') for a connection whose client end is gone
ServerClose(c) ==
    /\ ~(socket.readyState = OPEN /\ socket.conn = c)
    /\ WsClose(c)
    /\ UNCHANGED clientVars

\* The network between the client and the server goes and comes back
Outage ==
    /\ reachable /\ outages < MaxOutages
    /\ reachable' = FALSE
    /\ outages' = outages + 1
    /\ UNCHANGED <<serverVars, sidebarVars, viewVars, socket, timers,
                   currentUser, wire, saved>>

Recover ==
    /\ ~reachable
    /\ reachable' = TRUE
    /\ UNCHANGED <<serverVars, sidebarVars, viewVars, socket, timers,
                   currentUser, wire, saved, outages>>

----------------------------------------------------------------------------
(* Specifications *)

\* Targets of EDIT, DELETE, PIN and REACTION frames: ids created so far and
\* ids not (yet) in the store
TargetIds == 1..MaxMsgs

\* The copy of message id a client holds from the NEW_MESSAGE broadcast that
\* announced it: the record as created.  It is stale once the message has
\* changed on the server.  An id that is not in the store is a copy of a
\* message the server no longer has.
CopyOf(id) ==
    LET index == FindIndex(messages, id)
    IN  IF index = 0
        THEN Draft(id, "general", UserOf("c1"), now, "text", "a")
        ELSE Draft(id, messages[index].channelId, messages[index].userId,
                   messages[index].timestamp, "text", "a")

\* Reads and writes fail at most MaxFaults times in a behaviour
FaultAllowed(readOk, outcome) ==
    faults + (IF readOk THEN 0 ELSE 1) + (IF outcome = "ok" THEN 0 ELSE 1)
        <= MaxFaults

\* Spec, SpecFaulty, SpecPaging and SpecEdit follow the store and the event
\* each frame makes the hub broadcast (lastEvent); they start with no socket
\* registered and register none, so c only names the client a frame comes
\* from.  SpecPresence and SpecHub follow the sockets and what each is sent.

\* The frames of the mutation handlers.  The client on c1 posts text
\* messages (its clock in step with the server's) and, as their author, edits
\* and deletes them; both clients pin and react.
Posts(readOks, outcomes) ==
    \E readOk \in readOks, outcome \in outcomes, ts \in {Undefined, now} :
        /\ FaultAllowed(readOk, outcome)
        /\ nextId <= MaxMsgs
        /\ WsNewMessage("c1", Draft(nextId, "general", UserOf("c1"), ts, "text", "a"),
                        readOk, outcome)
        /\ UNCHANGED clientVars

Edits(readOks, outcomes) ==
    \E readOk \in readOks, outcome \in outcomes, id \in TargetIds :
        /\ FaultAllowed(readOk, outcome)
        /\ WsEdit("c1", EditPayload(CopyOf(id), "b"), readOk, outcome)
        /\ UNCHANGED clientVars

Deletes(readOks, outcomes) ==
    \E readOk \in readOks, outcome \in outcomes, id \in TargetIds :
        /\ FaultAllowed(readOk, outcome)
        /\ WsDelete("c1", id, readOk, outcome)
        /\ UNCHANGED clientVars

Pins(readOks, outcomes) ==
    \E readOk \in readOks, outcome \in outcomes, c \in Conns, id \in TargetIds :
        /\ FaultAllowed(readOk, outcome)
        /\ WsPin(c, id, readOk, outcome)
        /\ UNCHANGED clientVars

Reacts(readOks, outcomes) ==
    \E readOk \in readOks, outcome \in outcomes, c \in Conns, id \in TargetIds,
       emoji \in Emojis :
        /\ FaultAllowed(readOk, outcome)
        /\ WsReaction(c, id, emoji, UserOf(c), readOk, outcome)
        /\ UNCHANGED clientVars

\* The disk works
Next ==
    \/ Posts({TRUE}, {"ok"})
    \/ Edits({TRUE}, {"ok"})
    \/ Deletes({TRUE}, {"ok"})
    \/ Pins({TRUE}, {"ok"})
    \/ Reacts({TRUE}, {"ok"})

Spec == Init /\ [][Next]_vars

\* The same handlers when a read or a write of the messages file may fail
NextFaulty ==
    \/ Posts(BOOLEAN, WriteOutcomes)
    \/ Edits(BOOLEAN, WriteOutcomes)
    \/ Deletes(BOOLEAN, WriteOutcomes)
    \/ Pins(BOOLEAN, WriteOutcomes)
    \/ Reacts(BOOLEAN, WriteOutcomes)

SpecFaulty == Init /\ [][NextFaulty]_vars

\* The process ends and is started again: the files are there, so the
\* start-up leaves them as they are; what the process held in memory is gone
Restart ==
    /\ lastEvent' = NoEvent
    /\ response' = NoResponse
    /\ clients' = <<>>
    /\ readyState' = [c \in Conns |-> CLOSED]
    /\ inbox' = [c \in Conns |-> <<>>]
    /\ running' = TRUE
    /\ UNCHANGED <<messages, now, nextId, toggled, faults, channels>>
    /\ UNCHANGED clientVars

\* The same handlers when a read of the messages file may fail and every
\* write succeeds, and restarts of the process
NextReadFaulty ==
    \/ Posts(BOOLEAN, {"ok"})
    \/ Edits(BOOLEAN, {"ok"})
    \/ Deletes(BOOLEAN, {"ok"})
    \/ Pins(BOOLEAN, {"ok"})
    \/ Reacts(BOOLEAN, {"ok"})
    \/ Restart

SpecReadFaulty == Init /\ [][NextReadFaulty]_vars

\* Message creation on two channels by a client whose clock need not agree
\* with the server's, and the paginated read
Cursors ==
    {Query(None, Undefined, Undefined, Undefined, Undefined)}
        \cup {Query(None, Undefined, t, Undefined, Undefined) : t \in 0..MaxTime + 1}
        \cup {Query(None, Undefined, Undefined, t, Undefined) : t \in 0..MaxTime}
        \cup {Query(None, Undefined, Undefined, Undefined, id) : id \in 1..MaxLog}

PostsAnywhere ==
    \E channelId \in ChannelIds, ts \in {Undefined} \cup 0..MaxTime :
        /\ nextId <= MaxLog
        /\ WsNewMessage("c1", Draft(nextId, channelId, UserOf("c1"), ts, "text", "a"),
                        TRUE, "ok")
        /\ UNCHANGED clientVars

Fetches ==
    \E channelId \in ChannelIds, limit \in 1..MaxLimit, cur \in Cursors :
        HttpGetMessages([cur EXCEPT !.channelId = channelId, !.limit = limit], TRUE)
        /\ UNCHANGED clientVars

NextPaging ==
    \/ Tick
    \/ PostsAnywhere
    \/ Fetches

SpecPaging == Init /\ [][NextPaging]_vars

\* The hub with its sockets: connections open, join, type, post and mutate,
\* begin to close and close.  A socket sends frames while it is open.
Usernames == {"n1", "n2"}

UserRecord(u, n) == [id |-> u, username |-> n]

\* The payload of JOIN and UPDATE_USER: a user under some name, or null
JoinPayloads == {Null} \cup {UserRecord(u, n) : u \in Users, n \in Usernames}

TypingPayload(user, isTyping) ==
    [userId |-> user.id, username |-> user.username, isTyping |-> isTyping]

\* None of the sockets a frame goes to has been sent MaxInbox frames yet
Room(recipients) == \A c \in recipients : Len(inbox[c]) < MaxInbox

Connects == \E c \in Conns : Connection(c)
    /\ UNCHANGED clientVars

Joins ==
    \E c \in OpenClients, payload \in JoinPayloads :
        Room(OpenClients) /\ WsJoin(c, payload)
        /\ UNCHANGED clientVars

Typings ==
    \E c \in OpenClients :
        Room(OpenClients \ {c}) /\ WsTyping(c, TypingPayload(UserRecord(UserOf(c), "n1"), TRUE))
        /\ UNCHANGED clientVars

BeginCloses == \E c \in Conns : Closing(c)
    /\ UNCHANGED clientVars

Closes == \E c \in Conns : Room(OpenClients \ {c}) /\ WsClose(c)
    /\ UNCHANGED clientVars

HubPosts ==
    \E c \in OpenClients, channelId \in ChannelIds :
        /\ Room(OpenClients)
        /\ nextId <= MaxHubMsgs
        /\ WsNewMessage(c, Draft(nextId, channelId, UserOf(c), now, "text", "a"),
                        TRUE, "ok")
        /\ UNCHANGED clientVars

\* Edit and Delete are offered to the author of a message
HubEdits ==
    \E c \in OpenClients, id \in TargetIds :
        /\ Room(OpenClients)
        /\ UserOf(c) = CopyOf(id).userId
        /\ WsEdit(c, EditPayload(CopyOf(id), "b"), TRUE, "ok")
        /\ UNCHANGED clientVars

HubDeletes ==
    \E c \in OpenClients, id \in TargetIds :
        /\ Room(OpenClients)
        /\ UserOf(c) = CopyOf(id).userId
        /\ WsDelete(c, id, TRUE, "ok")
        /\ UNCHANGED clientVars

HubPins ==
    \E c \in OpenClients, id \in TargetIds : Room(OpenClients) /\ WsPin(c, id, TRUE, "ok")
    /\ UNCHANGED clientVars

HubReacts ==
    \E c \in OpenClients, id \in TargetIds, emoji \in Emojis :
        Room(OpenClients) /\ WsReaction(c, id, emoji, UserOf(c), TRUE, "ok")
        /\ UNCHANGED clientVars

\* EDIT frames.  The payload is editMessage's, built from a copy of the
\* message that went stale in any way (the reactions, pin state, channel and
\* hidden previews it carries need not be the store's), or a bare
\* { id, content }.
StalePayloads(id) ==
    {[CopyOf(id) EXCEPT !.content = "b", !.edited = TRUE,
                        !.channelId = channelId, !.pinned = pinned,
                        !.pinnedAt = IF pinned THEN now ELSE Undefined,
                        !.reactions = reactions,
                        !.hiddenPreviews = hiddenPreviews] :
        channelId \in ChannelIds, pinned \in BOOLEAN,
        reactions \in {<<>>, [e \in {"e1"} |-> <<"u2">>]},
        hiddenPreviews \in {<<>>, <<"url1">>}}

BarePayloads(id) == {[id |-> id, content |-> "b"]}

EditPosts ==
    \E channelId \in ChannelIds :
        /\ nextId <= MaxEdited
        /\ WsNewMessage("c1", Draft(nextId, channelId, UserOf("c1"), now, "text", "a"),
                        TRUE, "ok")
        /\ UNCHANGED clientVars

EditsAny ==
    \E id \in TargetIds : \E payload \in StalePayloads(id) \cup BarePayloads(id) :
        WsEdit("c1", payload, TRUE, "ok")
        /\ UNCHANGED clientVars

NextEdit ==
    \/ EditPosts
    \/ EditsAny
    \/ Deletes({TRUE}, {"ok"})
    \/ Pins({TRUE}, {"ok"})
    \/ Reacts({TRUE}, {"ok"})

SpecEdit == Init /\ [][NextEdit]_vars

\* Hiding link previews.  The client on c1 posts, edits and deletes, both
\* clients pin; the client on c2 hides previews, from the copy it got when the message was
\* announced or from the record as the store has it now.
Copies(id) ==
    {CopyOf(id)} \cup {messages[i] : i \in {j \in 1..Len(messages) : messages[j].id = id}}

Hides ==
    \E id \in TargetIds, url \in Urls : \E copy \in Copies(id) :
        /\ IndexOf(copy.hiddenPreviews, url) = 0
        /\ WsEdit("c2", RemovePreviewPayload(copy, url), TRUE, "ok")
        /\ UNCHANGED clientVars

NextPreview ==
    \/ EditPosts
    \/ Edits({TRUE}, {"ok"})
    \/ Deletes({TRUE}, {"ok"})
    \/ Pins({TRUE}, {"ok"})
    \/ Hides

SpecPreview == Init /\ [][NextPreview]_vars

\* The channel list under creations, renames and reorders
ChannelPosts ==
    \E name \in ChannelNames \cup {None} :
        /\ Len(channels) < MaxChannels
        /\ HttpPostChannel(name, None)
        /\ UNCHANGED clientVars

ChannelPuts ==
    \E id \in {"missing"} \cup {channels[i].id : i \in 1..Len(channels)},
       name \in ChannelNames \cup {None}, order \in {Undefined} \cup 0..MaxOrder :
        HttpPutChannel(id, name, order)
        /\ UNCHANGED clientVars

NextChannels ==
    \/ Tick
    \/ ChannelPosts
    \/ ChannelPuts

SpecChannels == Init /\ [][NextChannels]_vars

\* Reorders by drag and drop in one session of one client: the client loads
\* the channels, creates channels, and drops a channel on another place when
\* the calls of its previous drop have all been answered.  Nobody else
\* changes the channels.
NewNames == {"dev", "ops", "General"}

Loads == appChannels = <<>> /\ LoadChannels

Creates ==
    \E name \in NewNames :
        /\ appChannels # <<>> /\ puts = <<>>
        /\ Len(channels) < MaxShown
        /\ \A i \in 1..Len(channels) : channels[i].id # ToString36(now)
        /\ CreateNewChannel(name)

Drops ==
    \E dragIndex, dropIndex \in 0..(Len(appChannels) - 1) :
        puts = <<>> /\ HandleDrop(dragIndex, dropIndex)

NextDrop ==
    \/ Tick
    \/ Loads
    \/ Creates
    \/ Drops
    \/ ServePut

SpecDrop == Init /\ [][NextDrop]_vars

\* The message list of one client.  Its socket connects, App mounts and
\* fetches; another client posts on either channel, each message at a later
\* instant of its clock; the client handles the frames it is sent, jumps to
\* messages that are not in view, loads newer pages and jumps to the present.
\* One getMessages call is in flight at a time.
ViewConnects ==
    /\ Connection(ViewConn)
    /\ handled' = 0
    /\ UNCHANGED <<sidebarVars, serviceVars, appMessages, hasMoreNewer, fetching>>

ViewPosts ==
    \E channelId \in ChannelIds :
        /\ nextId <= MaxView
        /\ WsNewMessage("c2", Draft(nextId, channelId, UserOf("c2"), nextId, "text", "a"),
                        TRUE, "ok")
        /\ UNCHANGED clientVars

\* App fetches when the socket is open, so every message stored after the
\* fetch is also sent to the client
Mounts ==
    /\ fetching = Unmounted
    /\ readyState[ViewConn] = OPEN
    /\ FetchInitialHistory(MaxPage)

JumpsToPresent == fetching = Idle /\ hasMoreNewer /\ FetchInitialHistory(MaxPage)

Jumps ==
    \E targetId \in 1..MaxView :
        /\ fetching = Idle
        /\ \E i \in 1..Len(messages) :
                messages[i].id = targetId /\ messages[i].channelId = activeChannelId
        /\ HandleJumpToMessage(targetId, MaxPage)

LoadsNewer == LoadMoreNewer(MaxPage)

NextView ==
    \/ ViewConnects
    \/ ViewPosts
    \/ Mounts
    \/ JumpsToPresent
    \/ Jumps
    \/ LoadsNewer
    \/ ServeFetch
    \/ ApplyFetch
    \/ OnMessage

SpecView == Init /\ [][NextView]_vars

\* Reconnection.  The user logs in once; the network goes and comes back any
\* number of times; the client's socket fails or closes while the server
\* cannot be reached.  Timers fire, handshakes complete while the server can
\* be reached, the server handles the frames it is sent and learns of the
\* connections that are gone.
Reconnects == Connect

Opens == \E c \in Conns : SocketOpen(c)

Logins == \E u \in Users : currentUser = Null /\ SendJoin(UserRecord(u, "n1"))

ServerCloses == \E c \in Conns : ServerClose(c)

NextReconnect ==
    \/ Reconnects
    \/ Opens
    \/ SocketFail
    \/ SocketClose
    \/ Logins
    \/ ServeWire
    \/ ServerCloses
    \/ Outage
    \/ Recover

SpecReconnect ==
    /\ Init /\ [][NextReconnect]_vars
    /\ WF_vars(Reconnects) /\ WF_vars(Opens)
    /\ WF_vars(ServeWire) /\ WF_vars(ServerCloses)

\* Sending.  The same client, whose user also saves text messages, whatever
\* the state of its socket.
Saves ==
    /\ currentUser # Null
    /\ nextId <= MaxSaves
    /\ SaveMessage("general", "text", "a")

NextSend == NextReconnect \/ Saves

SpecSend ==
    /\ Init /\ [][NextSend]_vars
    /\ WF_vars(Reconnects) /\ WF_vars(Opens)
    /\ WF_vars(ServeWire) /\ WF_vars(ServerCloses)

\* Presence: sockets connect, join as a user or as nobody, type, begin to
\* close and close
NextPresence ==
    \/ Connects
    \/ Joins
    \/ Typings
    \/ BeginCloses
    \/ Closes

SpecPresence == Init /\ [][NextPresence]_vars

\* Fanout: sockets connect and close, nobody joins; the open sockets type,
\* post and mutate
NextHub ==
    \/ Connects
    \/ BeginCloses
    \/ Closes
    \/ Typings
    \/ HubPosts
    \/ HubEdits
    \/ HubDeletes
    \/ HubPins
    \/ HubReacts

SpecHub == Init /\ [][NextHub]_vars

\* Frames as they come off the wire: drafts with a fresh id, drafts that carry
\* an id again (a frame sent twice, or two clients whose generateUUID agreed),
\* drafts that lack a field, frames with an unknown action; and the
\* mutations of what is stored.

\* A frame { action: 'FOO' }: no id, no userId, no type, no content; a field
\* the frame lacks reads as undefined in the handler
UnknownAction ==
    LET d == Draft(Undefined, None, None, Undefined, None, None)
    IN  [f \in DOMAIN d \cup {"action"} |-> IF f = "action" THEN "FOO" ELSE d[f]]

MalformedFrames(id) ==
    {Draft(id, "general", None, now, "text", "a"),          \* no userId
     Draft(id, "general", UserOf("c1"), now, None, "a"),    \* no type
     Draft(id, "general", UserOf("c1"), now, "text", None), \* no content
     UnknownAction}

FramePosts ==
    /\ Len(messages) < MaxFrames
    /\ WsNewMessage("c1", Draft(nextId, "general", UserOf("c1"), now, "text", "a"),
                    TRUE, "ok")
    /\ UNCHANGED clientVars

Resends ==
    \E id \in 1..MaxFrames :
        /\ Len(messages) < MaxFrames
        /\ id < nextId
        /\ WsNewMessage("c2", Draft(id, "general", UserOf("c2"), now, "text", "b"),
                        TRUE, "ok")
        /\ UNCHANGED clientVars

MalformedPosts ==
    \E frame \in MalformedFrames(nextId) :
        /\ Len(messages) < MaxFrames
        /\ WsNewMessage("c1", frame, TRUE, "ok")
        /\ UNCHANGED clientVars

NextFrames ==
    \/ FramePosts
    \/ Resends
    \/ MalformedPosts
    \/ Edits({TRUE}, {"ok"})
    \/ Deletes({TRUE}, {"ok"})
    \/ Pins({TRUE}, {"ok"})
    \/ Reacts({TRUE}, {"ok"})

SpecFrames == Init /\ [][NextFrames]_vars

\* Transport errors: besides well-formed JOIN frames, a socket sends frames
\* that do not parse and JOIN frames without a payload; sockets close
JoinsAny ==
    \E c \in OpenClients, payload \in JoinPayloads \cup {NoPayload} :
        Room(OpenClients) /\ WsJoin(c, payload)
        /\ UNCHANGED clientVars

Garbage == \E c \in OpenClients : WsGarbage(c)
    /\ UNCHANGED clientVars

NextTransport ==
    \/ Connects
    \/ JoinsAny
    \/ Garbage
    \/ Typings
    \/ BeginCloses
    \/ Closes

SpecTransport == Init /\ [][NextTransport]_vars

----------------------------------------------------------------------------
(* Properties of the mutation handlers *)

\* reactions[emoji] read as a set of user ids; an absent key is the empty set
UsersOf(msg, emoji) ==
    IF emoji \in DOMAIN msg.reactions
    THEN {msg.reactions[emoji][k] : k \in 1..Len(msg.reactions[emoji])}
    ELSE {}

\* C1: no lost update.  For every stored message, emoji and user, the user is
\* in the stored reactions[emoji] exactly when an odd number of that user's
\* REACTION frames have arrived for the message, whatever connections they
\* came on, in whatever order, and whatever EDIT, DELETE, PIN or new-message
\* frames were handled in between: two toggles of one emoji by two users who
\* were both absent leave both present.
NoLostReaction ==
    \A i \in 1..Len(messages) : \A e \in Emojis, u \in Users :
        (u \in UsersOf(messages[i], e))
            <=> (\E t \in toggled :
                    t.id = messages[i].id /\ t.emoji = e /\ t.user = u)

\* Both users reacted with e1 to an edited message, on different connections,
\* u2's frame first, and the other message of the store was deleted.
BothReactionsKept ==
    \E i, j \in 1..Len(messages) :
        /\ i # j
        /\ messages[i].reactions = [e \in {"e1"} |-> <<"u2", "u1">>]
        /\ messages[i].edited
        /\ messages[j].deleted
        /\ \E t1, t2 \in toggled :
              /\ t1.id = messages[i].id /\ t2.id = messages[i].id
              /\ t1.user = "u1" /\ t2.user = "u2" /\ t1.conn # t2.conn

\* C2: every broadcast message event carries a record that a read of the
\* store returns: after a frame made the hub broadcast NEW_MESSAGE or
\* UPDATE_MESSAGE, the payload is a record of the messages file (so nothing is
\* broadcast when the write failed).
BroadcastIsStored ==
    lastEvent.type \in {"NEW_MESSAGE", "UPDATE_MESSAGE"}
        => \E i \in 1..Len(messages) : messages[i] = lastEvent.payload

\* s is t with some elements left out
IsSubsequence(s, t) ==
    \E f \in [1..Len(s) -> 1..Len(t)] :
        /\ \A i \in 1..Len(s) : t[f[i]] = s[i]
        /\ \A i, j \in 1..Len(s) : i < j => f[i] < f[j]

\* The ids of the stored records, in the order of the file
IdsOf(msgs) == [i \in 1..Len(msgs) |-> msgs[i].id]

\* C26: no stored message is ever lost.  Over every step (a new message, an
\* EDIT, DELETE, PIN or REACTION, handled with a read of the file that works
\* or fails, and a restart of the process) every message of the store is
\* still in the store, in the same relative order.
NoMessageLost ==
    [][IsSubsequence(IdsOf(messages), IdsOf(messages'))]_vars

\* The tombstone of the data model: deleted, the sentinel as content, type
\* text, not pinned
Tombstone(msg) ==
    /\ msg.deleted
    /\ msg.content = Sentinel
    /\ msg.type = "text"
    /\ ~msg.pinned

\* C8: tombstone invariant.  A stored record that is a tombstone stays one
\* over every step (EDIT, PIN, REACTION, DELETE, new message, from any client
\* and from any copy of the message), and a DELETE step leaves reactions and
\* hiddenPreviews of every record as they were.
TombstoneForever ==
    [][/\ \A i \in 1..Len(messages) :
            Tombstone(messages[i])
                => i <= Len(messages') /\ Tombstone(messages'[i])
       /\ \A id \in TargetIds :
            WsDelete("c1", id, TRUE, "ok")
                => \A i \in 1..Len(messages) :
                        /\ messages'[i].reactions = messages[i].reactions
                        /\ messages'[i].hiddenPreviews = messages[i].hiddenPreviews
      ]_vars

\* C9: DELETE is idempotent.  After any DELETE step on a message of the store
\* (pinned or not, with or without reactions, deleted before or not), handling
\* DELETE for the same id once more yields the very same file: the same
\* record, and no other message changed.
DeleteIdempotent ==
    [][\A id \in TargetIds :
            (WsDelete("c1", id, TRUE, "ok") /\ FindIndex(messages, id) # 0)
                => Deleted(getMessages(messages', TRUE), FindIndex(messages', id))
                       = messages'
      ]_vars

\* A pinned message with a reaction was deleted (and broadcast as such), next
\* to a message that is pinned and not deleted.
DeletedPinnedWithReactions ==
    \E i, j \in 1..Len(messages) :
        /\ i # j
        /\ messages[i].deleted /\ UsersOf(messages[i], "e1") # {}
        /\ lastEvent = Event("UPDATE_MESSAGE", messages[i])
        /\ messages[j].pinned /\ ~messages[j].deleted

\* No stored record maps an emoji key to an empty array
NoEmptyReactionKey ==
    \A i \in 1..Len(messages) : \A e \in DOMAIN messages[i].reactions :
        messages[i].reactions[e] # <<>>

\* C10: reaction toggle is an involution per user.  After any REACTION step
\* of user u with emoji e on a message of the store, handling the same
\* REACTION once more leaves reactions[e], read as a set of user ids, what it
\* was before the step; and no stored record ever maps an emoji key to an
\* empty array (an emptied key is removed).
ReactionInvolution ==
    /\ []NoEmptyReactionKey
    /\ [][\A c \in Conns, id \in TargetIds, e \in Emojis :
            (WsReaction(c, id, e, UserOf(c), TRUE, "ok") /\ FindIndex(messages, id) # 0)
                => LET i == FindIndex(messages, id)
                       twice == Reacted(getMessages(messages', TRUE), i, e, UserOf(c))
                   IN  /\ UsersOf(twice[i], e) = UsersOf(messages[i], e)
                       /\ \A k \in DOMAIN twice[i].reactions :
                            twice[i].reactions[k] # <<>>
          ]_vars

\* u1 is the only user who reacted with e1 to a message that u2 has reacted
\* to and then un-reacted: the next toggle of u1 empties and removes the key.
ReactionToggledOff ==
    \E i \in 1..Len(messages) :
        /\ messages[i].reactions = [e \in {"e1"} |-> <<"u1">>]
        /\ lastEvent = Event("UPDATE_MESSAGE", messages[i])
        /\ \E j \in 1..Len(messages) :
              i # j /\ "e1" \notin DOMAIN messages[j].reactions /\ ~messages[j].pinned
                    /\ ~messages[j].edited /\ ~messages[j].deleted

\* C11: EDIT preserves the protected fields.  In every reachable store, for
\* every message and whatever reactions, pinned, pinnedAt and channelId an
\* EDIT payload for it carries, the record the EDIT handler stores has the
\* reactions, pinned, pinnedAt and channelId the store holds; and the record
\* broadcast by the last frame is the stored one.
EditKeepsProtected ==
    /\ \A id \in TargetIds : \A payload \in StalePayloads(id) \cup BarePayloads(id) :
            LET currentMessages == getMessages(messages, TRUE)
                index == FindIndex(currentMessages, payload.id)
                updated == Edited(currentMessages, index, payload)
            IN  index # 0 =>
                    /\ updated[index].reactions = messages[index].reactions
                    /\ updated[index].pinned = messages[index].pinned
                    /\ updated[index].pinnedAt = messages[index].pinnedAt
                    /\ updated[index].channelId = messages[index].channelId
    /\ lastEvent.type = "UPDATE_MESSAGE"
            => \E i \in 1..Len(messages) : messages[i] = lastEvent.payload

\* An edited message (new content, a hidden preview) on channel dev is still
\* pinned and still holds the reaction of u1, which no EDIT payload carries,
\* and was broadcast so.
EditedKeptPinAndReaction ==
    \E i \in 1..Len(messages) :
        /\ messages[i].content = "b" /\ messages[i].hiddenPreviews = <<"url1">>
        /\ messages[i].channelId = "dev"
        /\ messages[i].pinned /\ messages[i].pinnedAt # Undefined
        /\ messages[i].reactions = [e \in {"e1"} |-> <<"u1">>]
        /\ lastEvent = Event("UPDATE_MESSAGE", messages[i])

\* C12: an EDIT changes only content, type and fileName and sets edited.
\* After any EDIT step on a message of the store, whatever the payload
\* carries, id, userId, timestamp, deleted and hiddenPreviews of the stored
\* record are what the store held before the step, and edited is true.
EditChangesOnlyContent ==
    [][\A id \in TargetIds : \A payload \in StalePayloads(id) \cup BarePayloads(id) :
            (WsEdit("c1", payload, TRUE, "ok") /\ FindIndex(messages, id) # 0)
                => LET i == FindIndex(messages, id)
                   IN  /\ messages'[i].id = messages[i].id
                       /\ messages'[i].userId = messages[i].userId
                       /\ messages'[i].timestamp = messages[i].timestamp
                       /\ messages'[i].deleted = messages[i].deleted
                       /\ messages'[i].hiddenPreviews = messages[i].hiddenPreviews
                       /\ messages'[i].edited
      ]_vars

\* C24: hiding a link preview adds the url and alters nothing else.  Over
\* every step that handles the EDIT removePreview sends for a stored message,
\* from a copy of it that lacks the url (the copy as announced, stale by now,
\* or the record as stored), content, type, edited and deleted of the stored
\* record are what the store held before the step, and hiddenPreviews holds
\* the urls it held before and the url.
HidePreviewOnly ==
    [][\A id \in TargetIds, url \in Urls : \A copy \in Copies(id) :
            (/\ FindIndex(messages, id) # 0
             /\ IndexOf(copy.hiddenPreviews, url) = 0
             /\ WsEdit("c2", RemovePreviewPayload(copy, url), TRUE, "ok"))
                => LET i == FindIndex(messages, id)
                       hidden(msg) == {msg.hiddenPreviews[k] :
                                            k \in 1..Len(msg.hiddenPreviews)}
                   IN  /\ messages'[i].content = messages[i].content
                       /\ messages'[i].type = messages[i].type
                       /\ messages'[i].edited = messages[i].edited
                       /\ messages'[i].deleted = messages[i].deleted
                       /\ hidden(messages'[i]) = hidden(messages[i]) \cup {url}
      ]_vars

\* C13: PIN flips pinned and keeps pinnedAt in step.  In every reachable
\* store every record has pinnedAt exactly when it is pinned; for every
\* message, the record a PIN stores has pinned flipped, with pinnedAt present
\* exactly when it is pinned, and a second PIN handled after it (from whatever
\* connection) gives pinned its original value back, so the two never both
\* yield pinned = true.
PinInStep ==
    /\ \A i \in 1..Len(messages) :
            messages[i].pinned <=> messages[i].pinnedAt # Undefined
    /\ \A id \in TargetIds :
            LET currentMessages == getMessages(messages, TRUE)
                index == FindIndex(currentMessages, id)
                once == Pinned(currentMessages, index, now)
                twice == Pinned(getMessages(once, TRUE), index, now)
            IN  index # 0 =>
                    /\ once[index].pinned = ~messages[index].pinned
                    /\ once[index].pinned <=> once[index].pinnedAt # Undefined
                    /\ twice[index].pinned <=> twice[index].pinnedAt # Undefined
                    /\ twice[index].pinned = messages[index].pinned
                    /\ ~(once[index].pinned /\ twice[index].pinned)

\* Both sockets were sent the message pinned and then the same message
\* unpinned, with pinnedAt gone: two PIN frames handled one after the other.
PinnedThenUnpinned ==
    \A c \in Conns :
        /\ Len(inbox[c]) = 2
        /\ inbox[c][1].type = "UPDATE_MESSAGE" /\ inbox[c][2].type = "UPDATE_MESSAGE"
        /\ inbox[c][1].payload.pinned /\ inbox[c][1].payload.pinnedAt # Undefined
        /\ inbox[c][2].payload
              = [inbox[c][1].payload EXCEPT !.pinned = FALSE, !.pinnedAt = Undefined]
        /\ \E i \in 1..Len(messages) : messages[i] = inbox[c][2].payload

\* The frames of the hub specification that target message id from socket c
TargetFrame(c, id) ==
    \/ WsEdit(c, EditPayload(CopyOf(id), "b"), TRUE, "ok")
    \/ WsDelete(c, id, TRUE, "ok")
    \/ WsPin(c, id, TRUE, "ok")
    \/ \E emoji \in Emojis : WsReaction(c, id, emoji, UserOf(c), TRUE, "ok")

\* C14: an EDIT, DELETE, PIN or REACTION whose target is not in the store is
\* dropped silently: over such a step the stored sequence is unchanged,
\* nothing is sent to any socket (no event, no error to the actor), and the
\* registry and the sockets are as before, so later frames are handled.
UnknownTargetDropped ==
    [][\A c \in Conns, id \in TargetIds :
            (FindIndex(messages, id) = 0 /\ TargetFrame(c, id))
                => /\ messages' = messages
                   /\ inbox' = inbox
                   /\ lastEvent' = NoEvent
                   /\ clients' = clients /\ readyState' = readyState
      ]_vars

\* A frame was dropped (nothing broadcast by the last frame) although both
\* sockets are open and have been sent the new message, and the store still
\* holds the message untouched.
DroppedWhileOpen ==
    /\ lastEvent = NoEvent
    /\ Len(messages) = 1 /\ ~messages[1].edited /\ ~messages[1].deleted
    /\ \A c \in Conns :
            readyState[c] = OPEN /\ inbox[c] = <<Event("NEW_MESSAGE", messages[1])>>

\* The frames of the hub specification that store something when sent on c
StoreFrame(c) ==
    \/ \E channelId \in ChannelIds :
            WsNewMessage(c, Draft(nextId, channelId, UserOf(c), now, "text", "a"),
                         TRUE, "ok")
    \/ \E id \in TargetIds : FindIndex(messages, id) # 0 /\ TargetFrame(c, id)

\* C19: fanout recipients.  Over every step that handles a new message or a
\* mutation of a stored message, the NEW_MESSAGE or UPDATE_MESSAGE event is
\* appended to what every open socket was sent (the actor's and those bound
\* to nobody included, whatever the channel) and to no other; over every
\* TYPING step the event goes to every open socket but the sender's and the
\* store is unchanged.
FanoutRecipients ==
    [][/\ \A c \in Conns :
            StoreFrame(c) =>
                /\ lastEvent'.type \in {"NEW_MESSAGE", "UPDATE_MESSAGE"}
                /\ \A d \in Conns :
                        inbox'[d] = IF readyState[d] = OPEN
                                    THEN Append(inbox[d], lastEvent')
                                    ELSE inbox[d]
       /\ \A c \in Conns :
            WsTyping(c, TypingPayload(UserRecord(UserOf(c), "n1"), TRUE)) =>
                /\ messages' = messages
                /\ lastEvent'.type = "TYPING"
                /\ \A d \in Conns :
                        inbox'[d] = IF readyState[d] = OPEN /\ d # c
                                    THEN Append(inbox[d], lastEvent')
                                    ELSE inbox[d]
      ]_vars

\* c1, bound to nobody, posted on channel dev and then typed: c1 was sent its
\* own message and not its typing, c2 was sent both.
ActorGetsMessageNotTyping ==
    /\ clients = <<[ws |-> "c1", user |-> Null], [ws |-> "c2", user |-> Null]>>
    /\ Len(messages) = 1 /\ messages[1].channelId = "dev" /\ messages[1].userId = "u1"
    /\ inbox["c1"] = <<Event("NEW_MESSAGE", messages[1])>>
    /\ inbox["c2"] = <<Event("NEW_MESSAGE", messages[1]),
                       Event("TYPING", TypingPayload(UserRecord("u1", "n1"), TRUE))>>

\* The message events among the frames sent to a socket
MessageEvents(frames) ==
    SelectSeq(frames, LAMBDA e : e.type \in {"NEW_MESSAGE", "UPDATE_MESSAGE"})

IsSuffix(s, t) == Len(s) <= Len(t) /\ s = SubSeq(t, Len(t) - Len(s) + 1, Len(t))

\* C20: broadcast order is commit order.  Over every step, a socket open
\* before and after it keeps what it was sent, in order, with at most one
\* frame appended; when the step commits a change of the store, the frame
\* appended is the event of that commit, carrying the record just stored.  So
\* the message events two open sockets were sent are the same sequence, up to
\* the events sent before the later of them connected.
BroadcastInCommitOrder ==
    /\ [][\A c \in Conns :
            (readyState[c] = OPEN /\ readyState'[c] = OPEN) =>
                /\ inbox'[c] = inbox[c] \/ inbox'[c] = Append(inbox[c], lastEvent')
                /\ messages' # messages =>
                        /\ inbox'[c] = Append(inbox[c], lastEvent')
                        /\ lastEvent'.type \in {"NEW_MESSAGE", "UPDATE_MESSAGE"}
                        /\ \E i \in 1..Len(messages') :
                                /\ messages'[i] = lastEvent'.payload
                                /\ i > Len(messages) \/ messages[i] # messages'[i]
         ]_vars
    /\ [](\A c, d \in OpenClients :
            \/ IsSuffix(MessageEvents(inbox[c]), MessageEvents(inbox[d]))
            \/ IsSuffix(MessageEvents(inbox[d]), MessageEvents(inbox[c])))

\* c1 posted and c2 then reacted: both sockets were sent the new message and
\* then its update.
BothSawPostThenReaction ==
    /\ Len(messages) = 1 /\ messages[1].userId = "u1"
    /\ messages[1].reactions = [e \in {"e1"} |-> <<"u2">>]
    /\ inbox["c2"] = <<Event("NEW_MESSAGE", [messages[1] EXCEPT !.reactions = <<>>]),
                       Event("UPDATE_MESSAGE", messages[1])>>
    /\ inbox["c1"] = inbox["c2"]

----------------------------------------------------------------------------
(* Properties of the channel list *)

\* C15: channel names stay unique ignoring case.  A POST whose name equals an
\* existing name ignoring case is answered 400 and leaves the channels file
\* as it was; and in every reachable state, after any creations and renames,
\* no two channels have names equal ignoring case.
NamesUnique ==
    /\ [][\A name \in ChannelNames :
            (HttpPostChannel(name, None)
                /\ \E i \in 1..Len(channels) :
                        toLowerCase(channels[i].name) = toLowerCase(name))
                => response'.status = "400" /\ channels' = channels
         ]_vars
    /\ [](\A i, j \in 1..Len(channels) :
            i # j => toLowerCase(channels[i].name) # toLowerCase(channels[j].name))

\* C16: after every PUT carrying an order and after every creation, no two
\* channels of the file have the same order.
OrdersDistinct ==
    \A i, j \in 1..Len(channels) :
        i # j => channels[i].order # channels[j].order

\* C27: after a reorder by drag and drop.  Whenever the client has loaded
\* the channels and no call of a drop is outstanding (before the first drop
\* and after each one has finished), the orders in the channels file are
\* pairwise distinct and GET /channels answers the channels in the order the
\* client displays.
DropKeepsOrder ==
    (appChannels # <<>> /\ puts = <<>>) =>
        /\ \A i, j \in 1..Len(channels) :
                i # j => channels[i].order # channels[j].order
        /\ [i \in 1..Len(channels) |-> getChannels(channels)[i].id]
                = [i \in 1..Len(appChannels) |-> appChannels[i].id]

----------------------------------------------------------------------------
(* Properties of the client's message list *)

\* The stored messages of the active channel, in the order of the file
ChannelOf(msgs) == SelectSeq(msgs, LAMBDA m : m.channelId = activeChannelId)

IdsShown == {appMessages[i].id : i \in 1..Len(appMessages)}

\* The frames sent to the client's socket that it has not handled yet
Unhandled ==
    {inbox[ViewConn][k] : k \in (handled + 1)..Len(inbox[ViewConn])}

\* No call is in flight and every frame sent has been handled
Settled == fetching = Idle /\ Unhandled = {}

\* C28: every message of the active channel appears exactly once in the
\* displayed list.  In every reachable state no id occurs twice in the list;
\* and once the list has settled at the present (the history has been applied
\* and every broadcast handled), every stored message of the channel that is
\* not older than the oldest one displayed is in the list, for whatever
\* interleaving of the history response with the broadcasts.
ShownExactlyOnce ==
    /\ \A i, j \in 1..Len(appMessages) :
            i # j => appMessages[i].id # appMessages[j].id
    /\ (Settled /\ ~hasMoreNewer) =>
            \A m \in {ChannelOf(messages)[k] : k \in 1..Len(ChannelOf(messages))} :
                (appMessages = <<>> \/ m.timestamp >= appMessages[1].timestamp)
                    => m.id \in IdsShown

\* list is a contiguous run of chan, by ids
IsRun(list, chan) ==
    \E k \in 0..(Len(chan) - Len(list)) :
        \A i \in 1..Len(list) : list[i].id = chan[k + i].id

\* C29: the displayed list stays a contiguous run of the channel.  Over
\* every step in which the client, viewing older history (hasMoreNewer true)
\* with a list that is a contiguous run of the channel's stored sequence,
\* handles the NEW_MESSAGE of a message newer than all it displays, the list
\* is again a contiguous run (no stored message between the newest loaded and
\* the new one is skipped); and over every step in which a newer page makes
\* hasMoreNewer false, the list ends with the newest message of the channel,
\* up to those whose broadcast is still to be handled.
NoSkipOnArrival ==
    [][/\ (/\ hasMoreNewer
           /\ handled' = handled + 1
           /\ IsRun(appMessages, ChannelOf(messages))
           /\ inbox[ViewConn][handled + 1].type = "NEW_MESSAGE"
           /\ inbox[ViewConn][handled + 1].payload.id \notin IdsShown
           /\ \A i \in 1..Len(appMessages) :
                appMessages[i].timestamp
                    < inbox[ViewConn][handled + 1].payload.timestamp)
            => IsRun(appMessages', ChannelOf(messages'))
       /\ (hasMoreNewer /\ ~hasMoreNewer' /\ fetching.kind = "newer")
            => /\ appMessages' # <<>>
               /\ \A k \in 1..Len(ChannelOf(messages)) :
                    LET m == ChannelOf(messages)[k]
                    IN  m.timestamp > appMessages'[Len(appMessages')].timestamp
                            => Event("NEW_MESSAGE", m) \in Unhandled
      ]_vars

----------------------------------------------------------------------------
(* Properties of the client's connection *)

\* The client's socket is open and its connection is bound to the user
Bound ==
    /\ socket.readyState = OPEN
    /\ \E i \in 1..Len(clients) :
            clients[i] = [ws |-> socket.conn, user |-> currentUser]

\* C25: reconnection.  The client has at most one pending retry, and only
\* while its socket is closed; a new socket is made only when the last one
\* is closed, and a socket that closes or fails leaves one retry pending; a
\* socket that opens while a user is known sends JOIN first; and if from
\* some point on the server stays reachable, then from some point on a
\* client that knows its user is bound to it in the server's registry.
ReconnectsAndJoins ==
    /\ [](timers <= 1 /\ (timers = 1 <=> socket.readyState = CLOSED))
    /\ [][/\ (socket'.readyState = CONNECTING /\ socket.readyState # CONNECTING)
               => (socket.readyState = CLOSED /\ timers = 1)
          /\ (socket'.readyState = OPEN /\ socket.readyState # OPEN)
               => (wire' = IF currentUser # Null
                           THEN <<JoinFrame(currentUser)>> ELSE <<>>)
         ]_vars
    /\ ((<>[]reachable) => <>[](currentUser = Null \/ Bound))

\* The client was bound to its user on its first socket, lost it in an
\* outage, and is bound to the user again on its second socket, while the
\* server has not yet learnt that the first connection is gone.
BoundAgain ==
    /\ Bound /\ socket.conn = "c2" /\ currentUser # Null
    /\ outages > 0 /\ reachable
    /\ clients = <<[ws |-> "c1", user |-> currentUser],
                   [ws |-> "c2", user |-> currentUser]>>

\* saveMessage was called for the message while the socket was not open
SavedWhileNotOpen(id) == \E call \in saved : call.id = id /\ ~call.open

\* The call for the message failed
Failed(id) == \E call \in saved : call.id = id /\ call.result = "rejected"

\* The server has the message
Delivered(id) == \E i \in 1..Len(messages) : messages[i].id = id

\* C30: a message saved while the socket is not open is never silently
\* discarded: the call fails, or the server gets the message in the end.
NeverSilentlyDiscarded ==
    \A id \in 1..MaxSaves :
        SavedWhileNotOpen(id) ~> (Failed(id) \/ Delivered(id))

----------------------------------------------------------------------------
(* Properties of presence *)

\* The frames sent to the sockets, and the last frame broadcast
AllFrames ==
    {lastEvent} \cup UNION {{inbox[c][k] : k \in 1..Len(inbox[c])} : c \in Conns}

\* The ids of the users bound to a connection of the registry
BoundIds(map) ==
    {map[k].user.id : k \in {j \in 1..Len(map) : map[j].user # Null}}

\* C17: presence de-duplication.  In every USER_LIST payload every entry is a
\* user (a connection bound to nobody contributes none) and no two entries
\* have the same id, however many connections are bound to it.
PresenceDeduplicated ==
    \A frame \in AllFrames :
        frame.type = "USER_LIST" =>
            /\ \A i \in 1..Len(frame.payload) :
                    frame.payload[i] \in JoinPayloads \ {Null}
            /\ \A i, j \in 1..Len(frame.payload) :
                    i # j => frame.payload[i].id # frame.payload[j].id

\* u1 is bound to both connections, under two names, and the list just sent
\* has one entry, u1 under the name last seen.
OneEntryForTwoTabs ==
    /\ clients = <<[ws |-> "c1", user |-> UserRecord("u1", "n1")],
                   [ws |-> "c2", user |-> UserRecord("u1", "n2")]>>
    /\ lastEvent = Event("USER_LIST", <<UserRecord("u1", "n2")>>)
    /\ \A c \in Conns : inbox[c] # <<>> /\ inbox[c][Len(inbox[c])] = lastEvent

\* C18: presence follows the registry.  Over every JOIN / UPDATE_USER step and
\* every close step a USER_LIST event is appended to what every socket open
\* after the step was sent, and its payload lists exactly the users bound to
\* the connections registered after the step.
PresenceFollowsRegistry ==
    [][\A c \in Conns :
            (\/ \E payload \in JoinPayloads : WsJoin(c, payload)
             \/ WsClose(c))
                => /\ lastEvent'.type = "USER_LIST"
                   /\ {lastEvent'.payload[i].id : i \in 1..Len(lastEvent'.payload)}
                        = BoundIds(clients')
                   /\ \A d \in Conns :
                        readyState'[d] = OPEN
                            => inbox'[d] = Append(inbox[d], lastEvent')
      ]_vars

\* u1 was listed with u2; then c1, the only connection of u1, closed, and c2
\* was sent a list with u2 alone.
LastConnectionClosed ==
    /\ readyState["c1"] = CLOSED
    /\ clients = <<[ws |-> "c2", user |-> UserRecord("u2", "n1")]>>
    /\ inbox["c2"] = <<Event("USER_LIST", <<UserRecord("u1", "n1"),
                                            UserRecord("u2", "n1")>>),
                       Event("USER_LIST", <<UserRecord("u2", "n1")>>)>>
    /\ lastEvent = Event("USER_LIST", <<UserRecord("u2", "n1")>>)

\* C21: transport errors are isolated per connection.  Over every step that
\* handles a frame that does not parse or a JOIN without payload on a
\* connection, or that closes a connection (after whatever frames), the server
\* keeps running and every other connection keeps its socket state and its
\* binding; and over every later well-formed JOIN of an open connection the
\* USER_LIST is sent to every open socket.
TransportErrorsIsolated ==
    [][\A c \in Conns :
          /\ (WsGarbage(c) \/ WsJoin(c, NoPayload) \/ WsClose(c))
                => /\ running'
                   /\ \A d \in Conns \ {c} :
                        /\ readyState'[d] = readyState[d]
                        /\ \A i \in 1..Len(clients) :
                                clients[i].ws = d
                                    => \E j \in 1..Len(clients') : clients'[j] = clients[i]
          /\ \A payload \in JoinPayloads :
                (readyState[c] = OPEN /\ WsJoin(c, payload))
                    => /\ lastEvent'.type = "USER_LIST"
                       /\ \A d \in OpenClients : inbox'[d] = Append(inbox[d], lastEvent')
      ]_vars

\* C22: message ids are unique and immutable.  In every reachable store no
\* two records have the same id, and over every step (a new message, an EDIT
\* whatever its payload carries, DELETE, PIN, REACTION) every stored record
\* keeps its place and its id.
IdsUniqueImmutable ==
    /\ [](\A i, j \in 1..Len(messages) : i # j => messages[i].id # messages[j].id)
    /\ [][\A i \in 1..Len(messages) :
            i <= Len(messages') /\ messages'[i].id = messages[i].id]_vars

\* C23: a malformed frame is rejected before it touches the store.  Over
\* every step that handles a draft without userId, type or content, or a
\* frame whose action is none of the known ones, the stored sequence is
\* unchanged and no NEW_MESSAGE is broadcast.
MalformedRejected ==
    [][\A c \in Conns : \A frame \in MalformedFrames(nextId) :
            WsNewMessage(c, frame, TRUE, "ok")
                => messages' = messages /\ lastEvent'.type # "NEW_MESSAGE"
      ]_vars

----------------------------------------------------------------------------
(* Properties of message creation and of GET /messages *)

\* Positions in the file of the messages of a channel
ChannelIdx(channelId) ==
    {i \in 1..Len(messages) : messages[i].channelId = channelId}

\* The records at a set of positions, in the order of the file
Kth(S, k) == CHOOSE i \in S : Cardinality({j \in S : j < i}) = k - 1
InOrder(S) == [k \in 1..Cardinality(S) |-> messages[Kth(S, k)]]

\* The n last, and the n first, of a set of positions
Largest(S, n) == {i \in S : Cardinality({j \in S : j > i}) < n}
Smallest(S, n) == {i \in S : Cardinality({j \in S : j < i}) < n}

IsLatest(q) ==
    q.before = Undefined /\ q.after = Undefined /\ q.around = Undefined
IsBefore(q) == q.before # Undefined /\ q.around = Undefined
IsAfter(q) == q.after # Undefined /\ q.before = Undefined /\ q.around = Undefined

\* C3: for every sequence of creations on a channel the stored timestamps
\* are non-decreasing in commit order (the order of the file), and a Latest
\* query whose limit is at least the channel's size returns the channel's
\* messages in that order.
CommitOrder ==
    /\ \A ch \in ChannelIds : \A i, j \in ChannelIdx(ch) :
            i < j => messages[i].timestamp <= messages[j].timestamp
    /\ (response.status = "ok" /\ IsLatest(response.query)
            /\ response.query.limit >= Cardinality(ChannelIdx(response.query.channelId)))
        => response.body = InOrder(ChannelIdx(response.query.channelId))

\* C4: the timestamp of a message is the store's clock at its creation,
\* whatever timestamp the draft carries: every step that creates a message
\* stores and broadcasts it with timestamp = now.
StoreAssignsTimestamp ==
    [][nextId' # nextId
        => /\ lastEvent'.type = "NEW_MESSAGE"
           /\ lastEvent'.payload.timestamp = now
           /\ messages'[Len(messages')].timestamp = now
      ]_vars

\* C5: pagination partition.  For every channel and every timestamp t carried
\* by one of its N messages, with limit N: Before(t), then the message at t,
\* then After(t) is the channel's whole sequence, nothing twice and nothing
\* missing.
PaginationPartition ==
    \A ch \in ChannelIds : \A i \in ChannelIdx(ch) :
        LET t == messages[i].timestamp
            N == Cardinality(ChannelIdx(ch))
            before == GetMessages(messages, Query(ch, N, t, Undefined, Undefined), TRUE)
            after == GetMessages(messages, Query(ch, N, Undefined, t, Undefined), TRUE)
        IN  before \o <<messages[i]>> \o after = InOrder(ChannelIdx(ch))

\* C6: what a page holds.  For a channel, a positive limit and a cursor:
\* Latest answers the last min(limit, N) messages of the channel; Before(t)
\* min(limit, k) of the k messages with timestamp < t, none of them older than
\* a message with timestamp < t that is left out (the most recent ones);
\* After(t) min(limit, k) of the k messages with timestamp > t, none of them
\* more recent than one left out (the earliest ones); each in the order of
\* the channel, and none from another channel.
PageIsTheSlice ==
    response.status = "ok" =>
        LET q == response.query
            S == ChannelIdx(q.channelId)
            older == {i \in S : messages[i].timestamp < q.before}
            newer == {i \in S : messages[i].timestamp > q.after}
            Answers(P) == response.body = InOrder(P)
        IN  /\ IsLatest(q) =>
                /\ response.body = InOrder(Largest(S, q.limit))
                /\ Len(response.body) = Min(q.limit, Cardinality(S))
            /\ IsBefore(q) =>
                \E P \in SUBSET older :
                    /\ Answers(P)
                    /\ Cardinality(P) = Min(q.limit, Cardinality(older))
                    /\ \A i \in P, j \in older \ P :
                            messages[i].timestamp >= messages[j].timestamp
            /\ IsAfter(q) =>
                \E P \in SUBSET newer :
                    /\ Answers(P)
                    /\ Cardinality(P) = Min(q.limit, Cardinality(newer))
                    /\ \A i \in P, j \in newer \ P :
                            messages[i].timestamp <= messages[j].timestamp
            /\ \A k \in 1..Len(response.body) :
                    response.body[k].channelId = q.channelId

\* C7: Around(id).  When the channel holds the message, the answer has at
\* most limit messages: the up to floor(limit/2) before the target, the
\* target, and the up to limit - floor(limit/2) - 1 after it, in order; when
\* it does not, the answer is the Latest answer for the same limit.
AroundWithinLimit ==
    (response.status = "ok" /\ response.query.around # Undefined) =>
        LET q == response.query
            S == ChannelIdx(q.channelId)
            hit == {i \in S : messages[i].id = q.around}
        IN  IF hit = {}
            THEN response.body = InOrder(Largest(S, q.limit))
            ELSE LET target == CHOOSE i \in hit : \A j \in hit : i <= j
                     half == q.limit \div 2
                     window == Largest({i \in S : i < target}, half)
                                \cup {target}
                                \cup Smallest({i \in S : i > target}, q.limit - half - 1)
                 IN  /\ Len(response.body) <= q.limit
                     /\ response.body = InOrder(window)

====
